---- MODULE Spec2Model ----
(***************************************************************************)
(* Model of src/data_transformer.py: the CSV-row to document transformer.  *)
(*                                                                         *)
(* Python strings are sequences of one-character strings, so that the      *)
(* string operations of the code (replace, lower, str, the regular         *)
(* expression, float parsing) are computed and not assumed.  Python values *)
(* are records [t, n, s]: t is the type tag, n the number of an int or a   *)
(* finite float, s the characters of a str.  Finite floats are modelled by *)
(* integers; NaN and the two infinities have tags of their own.            *)
(***************************************************************************)
EXTENDS Integers, Sequences, FiniteSets, TLC

(***************************************************************************)
(* Bounds of the model.                                                    *)
(***************************************************************************)
MaxSkuLen == 4
MaxPrice == 2
MaxRows == 2
MaxClock == 2

(***************************************************************************)
(* Python values.                                                          *)
(***************************************************************************)
None == [t |-> "none", n |-> 0, s |-> <<>>]
NaN == [t |-> "nan", n |-> 0, s |-> <<>>]
PosInf == [t |-> "inf", n |-> 0, s |-> <<>>]
NegInf == [t |-> "ninf", n |-> 0, s |-> <<>>]
PyFloat(x) == [t |-> "float", n |-> x, s |-> <<>>]
PyInt(x) == [t |-> "int", n |-> x, s |-> <<>>]
PyStr(chars) == [t |-> "str", n |-> 0, s |-> chars]
\* An exception escaping a call, named by its class.
Raised(cls) == [t |-> "raise", n |-> 0, s |-> <<cls>>]

IsStr(v) == v.t = "str"
IsFiniteFloat(v) == v.t = "float"
\* pd.isna on a scalar: None and NaN are missing, everything else is not.
pd_isna(v) == v.t \in {"none", "nan"}

(***************************************************************************)
(* String helpers: str.replace, str.lower, the `in` operator on strings.   *)
(***************************************************************************)
StartsWithAt(str, i, sub) ==
    /\ i + Len(sub) - 1 <= Len(str)
    /\ \A k \in 1..Len(sub) : str[i + k - 1] = sub[k]

\* `sub in str`
Contains(str, sub) == \E i \in 1..(Len(str) + 1) : StartsWithAt(str, i, sub)

\* str.replace(old, new): non-overlapping occurrences, left to right.
RECURSIVE ReplaceFrom(_, _, _, _)
ReplaceFrom(str, i, old, new) ==
    IF i > Len(str) THEN <<>>
    ELSE IF StartsWithAt(str, i, old)
         THEN new \o ReplaceFrom(str, i + Len(old), old, new)
         ELSE <<str[i]>> \o ReplaceFrom(str, i + 1, old, new)

Replace(str, old, new) == ReplaceFrom(str, 1, old, new)

Upper == <<"A","B","C","D","E","F","G","H","I","J","K","L","M",
           "N","O","P","Q","R","S","T","U","V","W","X","Y","Z">>
LowerLetters == <<"a","b","c","d","e","f","g","h","i","j","k","l","m",
                  "n","o","p","q","r","s","t","u","v","w","x","y","z">>

LowerChar(c) ==
    IF \E k \in 1..Len(Upper) : Upper[k] = c
    THEN LowerLetters[CHOOSE k \in 1..Len(Upper) : Upper[k] = c]
    ELSE c

\* str.lower()
Lower(str) == [i \in 1..Len(str) |-> LowerChar(str[i])]

Digits == <<"0","1","2","3","4","5","6","7","8","9">>
IsDigit(c) == \E k \in 1..Len(Digits) : Digits[k] = c
DigitVal(c) == (CHOOSE k \in 1..Len(Digits) : Digits[k] = c) - 1

(***************************************************************************)
(* extract_size_from_sku: re.search(r'_([SMXL\d]+XL?)$', sku).             *)
(***************************************************************************)
\* [SMXL\d]
InSizeClass(c) == c \in {"S", "M", "X", "L"} \/ IsDigit(c)

\* body matches [SMXL\d]+XL? : one or more class characters, an "X", then an
\* optional "L".
MatchesSizeBody(body) ==
    /\ \A k \in 1..Len(body) : InSizeClass(body[k])
    /\ \/ Len(body) >= 2 /\ body[Len(body)] = "X"
       \/ Len(body) >= 3 /\ body[Len(body)] = "L" /\ body[Len(body) - 1] = "X"

\* Positions where `$` matches: the end of the string, and just before a
\* newline that ends the string.  The value is the index of the last
\* character before the `$`.
DollarEnds(str) ==
    {Len(str)} \cup
        (IF Len(str) >= 1 /\ str[Len(str)] = "\n" THEN {Len(str) - 1} ELSE {})

\* The pattern matches with its underscore at position i and `$` after e.
SizeMatchAt(str, i, e) ==
    /\ str[i] = "_"
    /\ e > i
    /\ MatchesSizeBody(SubSeq(str, i + 1, e))

SizeMatchStarts(str) ==
    {i \in 1..Len(str) : \E e \in DollarEnds(str) : SizeMatchAt(str, i, e)}

\* The regular expression the code compiles.
size_pattern(str) ==
    IF SizeMatchStarts(str) = {} THEN None
    ELSE LET i == CHOOSE j \in SizeMatchStarts(str) :
                      \A k \in SizeMatchStarts(str) : j <= k
             e == CHOOSE f \in DollarEnds(str) : SizeMatchAt(str, i, f)
         IN PyStr(SubSeq(str, i + 1, e))

extract_size_from_sku(v) ==
    IF pd_isna(v) \/ ~IsStr(v) THEN None
    ELSE size_pattern(v.s)

(***************************************************************************)
(* Conversions between Python values: float(value) and str(value).         *)
(***************************************************************************)
\* str.strip() of the blanks around a numeric literal.
RECURSIVE Strip(_)
Strip(str) ==
    IF str = <<>> THEN <<>>
    ELSE IF Head(str) = " " THEN Strip(Tail(str))
    ELSE IF str[Len(str)] = " " THEN Strip(SubSeq(str, 1, Len(str) - 1))
    ELSE str

RECURSIVE DigitsValue(_)
DigitsValue(str) ==
    IF str = <<>> THEN 0
    ELSE DigitsValue(SubSeq(str, 1, Len(str) - 1)) * 10 + DigitVal(str[Len(str)])

IsDigits(str) == Len(str) >= 1 /\ \A k \in 1..Len(str) : IsDigit(str[k])

\* float(str) of an unsigned literal: "nan", "inf", "infinity" in any case,
\* or decimal digits (the modelled strings carry no fraction or exponent).
UnsignedFloat(str, negative) ==
    IF Lower(str) = <<"n","a","n">> THEN NaN
    ELSE IF Lower(str) \in {<<"i","n","f">>, <<"i","n","f","i","n","i","t","y">>}
         THEN (IF negative THEN NegInf ELSE PosInf)
    ELSE IF IsDigits(str)
         THEN PyFloat(IF negative THEN 0 - DigitsValue(str) ELSE DigitsValue(str))
    ELSE Raised("ValueError")

\* float(value)
float(v) ==
    CASE v.t = "float" -> v
      [] v.t = "int" -> PyFloat(v.n)
      [] v.t \in {"nan", "inf", "ninf"} -> v
      [] v.t = "none" -> Raised("TypeError")
      [] v.t = "str" ->
            LET body == Strip(v.s)
            IN IF body # <<>> /\ Head(body) = "-" THEN UnsignedFloat(Tail(body), TRUE)
               ELSE IF body # <<>> /\ Head(body) = "+" THEN UnsignedFloat(Tail(body), FALSE)
               ELSE UnsignedFloat(body, FALSE)
      [] OTHER -> Raised("TypeError")

RECURSIVE NatToStr(_)
NatToStr(x) ==
    IF x < 10 THEN <<Digits[x + 1]>>
    ELSE NatToStr(x \div 10) \o <<Digits[(x % 10) + 1]>>

IntToStr(x) == IF x < 0 THEN <<"-">> \o NatToStr(0 - x) ELSE NatToStr(x)

\* str(value), as characters.
str(v) ==
    CASE v.t = "str" -> v.s
      [] v.t = "nan" -> <<"n","a","n">>
      [] v.t = "none" -> <<"N","o","n","e">>
      [] v.t = "inf" -> <<"i","n","f">>
      [] v.t = "ninf" -> <<"-","i","n","f">>
      [] v.t = "int" -> IntToStr(v.n)
      [] v.t = "float" -> IntToStr(v.n) \o <<".","0">>
      [] OTHER -> <<>>

math_isnan(v) == v.t = "nan"
math_isinf(v) == v.t \in {"inf", "ninf"}

(***************************************************************************)
(* safe_float(value, default)                                              *)
(***************************************************************************)
\* safe_float without the math.isnan / math.isinf test after the conversion.
safe_float_NoFiniteCheck(value, default) ==
    IF value = None THEN default
    ELSE IF pd_isna(value) THEN default
    ELSE LET result == float(value)
         IN IF result.t = "raise" THEN default ELSE result

safe_float(value, default) ==
    IF value = None THEN default
    ELSE IF pd_isna(value) THEN default
    ELSE LET result == float(value)
         IN IF result.t = "raise"
            THEN (IF result.s[1] \in {"ValueError", "TypeError"} THEN default
                  ELSE result)
            ELSE IF math_isnan(result) \/ math_isinf(result) THEN default
            ELSE result

(***************************************************************************)
(* standardize_platform_name(platform_col)                                 *)
(***************************************************************************)
standardize_platform_name(platform_col) ==
    Replace(Lower(Replace(platform_col, <<" ","M","R","P">>, <<>>)), <<" ">>, <<"_">>)

(***************************************************************************)
(* A row is a pandas Series: index is the sequence of column names and     *)
(* values the cells, position by position.  A dict is the sequence of its  *)
(* items in insertion order.                                               *)
(***************************************************************************)
HasColumn(row, col) == \E i \in 1..Len(row.index) : row.index[i] = col

\* row[col]
RowAt(row, col) ==
    row.values[CHOOSE i \in 1..Len(row.index) :
                  /\ row.index[i] = col
                  /\ \A j \in 1..(i - 1) : row.index[j] # col]

\* row.get(col, default)
RowGet(row, col, default) == IF HasColumn(row, col) THEN RowAt(row, col) ELSE default

DictKeys(d) == {d[i].key : i \in 1..Len(d)}

\* d[key] = val: a new key goes last, an existing key keeps its position.
DictSet(d, key, val) ==
    IF key \in DictKeys(d)
    THEN [i \in 1..Len(d) |-> IF d[i].key = key THEN [key |-> key, val |-> val] ELSE d[i]]
    ELSE Append(d, [key |-> key, val |-> val])

DictGet(d, key) == d[CHOOSE i \in 1..Len(d) : d[i].key = key].val

\* min(...)/max(...) of a non-empty sequence of finite floats.
MinOf(prices) ==
    PyFloat(CHOOSE x \in {prices[i].n : i \in 1..Len(prices)} :
                \A i \in 1..Len(prices) : x <= prices[i].n)
MaxOf(prices) ==
    PyFloat(CHOOSE x \in {prices[i].n : i \in 1..Len(prices)} :
                \A i \in 1..Len(prices) : x >= prices[i].n)

RECURSIVE SumOf(_)
SumOf(prices) == IF prices = <<>> THEN 0 ELSE Head(prices).n + SumOf(Tail(prices))

cSku == <<"S","k","u">>
cStyleId == <<"S","t","y","l","e"," ","I","d">>
cCatalog == <<"C","a","t","a","l","o","g">>
cCategory == <<"C","a","t","e","g","o","r","y">>
cWeight == <<"W","e","i","g","h","t">>
cTP == <<"T","P">>
cMRPOld == <<"M","R","P"," ","O","l","d">>
cFinalMRPOld == <<"F","i","n","a","l"," ","M","R","P"," ","O","l","d">>

\* The `val is not None and val > 0` test of the three loops.
Qualifies(val) == val # None /\ val.t = "float" /\ val.n > 0

(***************************************************************************)
(* calculate_cheapest_platform(row, platform_cols)                         *)
(***************************************************************************)
\* The loop that fills a dict of standardized name -> price.
RECURSIVE PlatformPrices(_, _, _)
PlatformPrices(row, cols, prices) ==
    IF cols = <<>> THEN prices
    ELSE LET col == Head(cols)
             val == safe_float(RowAt(row, col), None)
         IN PlatformPrices(row, Tail(cols),
                IF Qualifies(val)
                THEN DictSet(prices, standardize_platform_name(col), val)
                ELSE prices)

\* max(...) written where min(...) is meant.
MaxItem(prices) ==
    prices[CHOOSE i \in 1..Len(prices) :
              /\ \A j \in 1..Len(prices) : prices[i].val.n >= prices[j].val.n
              /\ \A j \in 1..(i - 1) : prices[j].val.n # prices[i].val.n]

\* min(prices.items(), key=lambda x: x[1]): the first item of least value.
MinItem(prices) ==
    prices[CHOOSE i \in 1..Len(prices) :
              /\ \A j \in 1..Len(prices) : prices[i].val.n <= prices[j].val.n
              /\ \A j \in 1..(i - 1) : prices[j].val.n # prices[i].val.n]

calculate_cheapest_platform(row, platform_cols) ==
    LET prices == PlatformPrices(row, platform_cols, <<>>)
    IN IF prices # <<>>
       THEN LET cheapest == MinItem(prices)
            IN <<PyStr(cheapest.key), cheapest.val>>
       ELSE <<None, None>>

(***************************************************************************)
(* transform_row_to_document(row), with the clock reading of datetime.now  *)
(***************************************************************************)
IsPlatformCol(col) ==
    Contains(col, <<"M","R","P">>) /\ col \notin {cMRPOld, cFinalMRPOld}

PlatformCols(row) == SelectSeq(row.index, IsPlatformCol)

\* The loop that collects platform_prices.
RECURSIVE PlatformPriceList(_, _)
PlatformPriceList(row, cols) ==
    IF cols = <<>> THEN <<>>
    ELSE LET val == safe_float(RowAt(row, Head(cols)), None)
         IN (IF Qualifies(val) THEN <<val>> ELSE <<>>)
                \o PlatformPriceList(row, Tail(cols))

\* datetime.isoformat() of a clock reading.
isoformat(t) == PyStr(<<"T">> \o NatToStr(t))

transform_row_to_document(row, clock) ==
    LET platform_cols == PlatformCols(row)
        ecommerce_platforms == PlatformPrices(row, platform_cols, <<>>)
        cheapest == calculate_cheapest_platform(row, platform_cols)
        platform_prices == PlatformPriceList(row, platform_cols)
        price_range == IF platform_prices # <<>>
                       THEN MaxOf(platform_prices).n - MinOf(platform_prices).n
                       ELSE 0
    IN [sku |-> PyStr(str(RowGet(row, cSku, PyStr(<<>>)))),
        style_id |-> PyStr(str(RowGet(row, cStyleId, PyStr(<<>>)))),
        product |->
            [catalog |-> PyStr(str(RowGet(row, cCatalog, PyStr(<<>>)))),
             category |-> PyStr(str(RowGet(row, cCategory, PyStr(<<>>)))),
             weight |-> safe_float(RowGet(row, cWeight, PyInt(0)), PyFloat(0)),
             size |-> extract_size_from_sku(PyStr(str(RowGet(row, cSku, PyStr(<<>>)))))],
        pricing |->
            [tp |-> safe_float(RowGet(row, cTP, PyInt(0)), PyFloat(0)),
             mrp_old |-> safe_float(RowGet(row, cMRPOld, PyInt(0)), PyFloat(0)),
             final_mrp_old |-> safe_float(RowGet(row, cFinalMRPOld, PyInt(0)), PyFloat(0))],
        ecommerce_platforms |-> ecommerce_platforms,
        metadata |->
            [cheapest_platform |-> cheapest[1],
             cheapest_price |-> cheapest[2],
             price_range |-> PyFloat(price_range),
             min_price |-> IF platform_prices # <<>> THEN MinOf(platform_prices)
                           ELSE PyInt(0),
             max_price |-> IF platform_prices # <<>> THEN MaxOf(platform_prices)
                           ELSE PyInt(0),
             avg_price |-> IF platform_prices # <<>>
                           THEN [t |-> "float", num |-> SumOf(platform_prices),
                                 den |-> Len(platform_prices)]
                           ELSE [t |-> "int", num |-> 0, den |-> 1],
             created_at |-> isoformat(clock),
             data_source |-> PyStr(<<"M","a","y","-","2","0","2","2">>)]]

(***************************************************************************)
(* State.                                                                  *)
(*   pc               position of the call being modelled                  *)
(*   sku, size        argument and result of extract_size_from_sku         *)
(*   arg_value, arg_default, returned                                      *)
(*                    arguments and result of safe_float                   *)
(*   row, document    argument and result of transform_row_to_document     *)
(*   csv, limit       the file and the limit given to                      *)
(*                    transform_csv_to_documents                           *)
(*   raising          the rows (by position) whose mapping raises          *)
(*   df, idx, documents                                                    *)
(*                    the locals of transform_csv_to_documents             *)
(*   now              the wall clock read by datetime.now()                *)
(*   run, first_documents                                                  *)
(*                    which call on the same file this is, and what the    *)
(*                    first call returned                                  *)
(***************************************************************************)
VARIABLES pc, sku, size, arg_value, arg_default, returned, row, document,
          csv, limit, raising, df, idx, documents, now, run, first_documents

vars == <<pc, sku, size, arg_value, arg_default, returned, row, document,
          csv, limit, raising, df, idx, documents, now, run, first_documents>>

skuVars == <<sku, size>>
floatVars == <<arg_value, arg_default, returned>>
rowVars == <<row, document>>
batchVars == <<csv, limit, raising, df, idx, documents, now, run, first_documents>>

NoRow == [index |-> <<>>, values |-> <<>>]
NoCsv == [header |-> <<>>, rows |-> <<>>]

SkuIdle == sku = None /\ size = None
FloatIdle == arg_value = None /\ arg_default = None /\ returned = None
RowIdle == row = NoRow /\ document = None
BatchIdle ==
    /\ csv = NoCsv /\ limit = None /\ raising = {}
    /\ df = <<>> /\ idx = 0 /\ documents = <<>>
    /\ now = 0 /\ run = 1 /\ first_documents = <<>>

(***************************************************************************)
(* extract_size_from_sku on every short string over an alphabet that holds *)
(* the characters the pattern distinguishes, and on values that are not    *)
(* strings.                                                                *)
(***************************************************************************)
SkuAlphabet == {"T", "_", "X", "L", "M", "2", "\n"}

SkuStrings == UNION {[1..n -> SkuAlphabet] : n \in 0..MaxSkuLen}

SkuInputs == {PyStr(chars) : chars \in SkuStrings} \cup {None, NaN, PyFloat(1)}

InitSku ==
    /\ pc = "sku_call"
    /\ sku \in SkuInputs
    /\ size = None
    /\ FloatIdle /\ RowIdle /\ BatchIdle

ExtractSize ==
    /\ pc = "sku_call"
    /\ size' = extract_size_from_sku(sku)
    /\ pc' = "sku_done"
    /\ UNCHANGED <<sku, floatVars, rowVars, batchVars>>

NextSku == ExtractSize

SpecSku == InitSku /\ [][NextSku]_vars

(***************************************************************************)
(* Rows given to transform_row_to_document.  pandas hands a cell over as a *)
(* float (NaN for an empty cell, an infinity for "inf"), an int, or a str  *)
(* when the column holds text.                                             *)
(***************************************************************************)
cAjio == <<"A","j","i","o"," ","M","R","P">>
cAmazon == <<"A","m","a","z","o","n"," ","M","R","P">>
cAJIO == <<"A","J","I","O"," ","M","R","P">>
cTataCliq == <<"T","a","t","a"," ","C","l","i","q"," ","M","R","P">>

\* The ways a CSV cell can spell the number x.
NumericForms(x) ==
    {PyFloat(x), PyInt(x), PyStr(IntToStr(x)), PyStr(<<" ">> \o IntToStr(x) \o <<" ">>)}

\* Cells that hold no finite number.
InvalidCells ==
    {NaN, PosInf, NegInf, PyStr(<<"a","b","c">>), PyStr(<<"i","n","f">>),
     PyStr(<<"N","a","N">>)}

NumericCells == UNION {NumericForms(x) : x \in (0 - 1)..MaxPrice}

PriceCells ==
    {NaN, PosInf, PyStr(<<"a","b","c">>), PyFloat(0), PyFloat(0 - 1)}
        \cup {PyFloat(x) : x \in 1..MaxPrice}

TextCells == {NaN, PyStr(<<"A","_","2","X","L">>)}

\* The cells a column takes in the rows that vary the pricing block
\* ("pricing") and in the rows that vary the platform prices ("platform").
CellDomain(profile, col) ==
    IF col \in {cSku, cStyleId}
    THEN (IF profile = "platform" THEN TextCells ELSE {PyStr(<<"A","_","2","X","L">>)})
    ELSE IF col = cCatalog THEN {PyStr(<<"M","o","m","e","n","t","s">>)}
    ELSE IF col = cCategory THEN {PyStr(<<"K","u","r","t","a">>)}
    ELSE IF col = cWeight THEN {PyFloat(1)}
    ELSE IF col = cTP
         THEN (IF profile = "pricing" THEN NumericCells \cup InvalidCells
               ELSE {PyFloat(1)})
    ELSE IF col \in {cMRPOld, cFinalMRPOld}
         THEN (IF profile = "pricing" THEN {PyFloat(1)} \cup InvalidCells
               ELSE {PyFloat(1)})
    ELSE IF profile = "platform" THEN PriceCells
    ELSE {PyFloat(1)}

RECURSIVE CellsOver(_, _)
CellsOver(profile, header) ==
    IF header = <<>> THEN {<<>>}
    ELSE {<<c>> \o rest : c \in CellDomain(profile, Head(header)),
                          rest \in CellsOver(profile, Tail(header))}

RowsOver(profile, header) ==
    {[index |-> header, values |-> cells] : cells \in CellsOver(profile, header)}

PricingHeaders ==
    {<<cSku, cStyleId, cCatalog, cCategory, cWeight, cTP, cMRPOld, cFinalMRPOld, cAjio>>,
     <<cAjio>>}

PlatformHeaders ==
    {<<cSku, cAjio, cAmazon, cAJIO>>,
     <<cStyleId, cAjio, cTataCliq, cAmazon>>,
     <<cSku, cTP, cMRPOld, cFinalMRPOld>>}

RowInputs ==
    UNION ({RowsOver("pricing", h) : h \in PricingHeaders}
              \cup {RowsOver("platform", h) : h \in PlatformHeaders})

\* The defaults the code passes to safe_float.
Defaults == {None, PyFloat(0)}

InitRow ==
    /\ pc = "row_call"
    /\ row \in RowInputs
    /\ document = None
    /\ now = 0
    /\ SkuIdle /\ FloatIdle
    /\ csv = NoCsv /\ limit = None /\ raising = {}
    /\ df = <<>> /\ idx = 0 /\ documents = <<>>
    /\ run = 1 /\ first_documents = <<>>

\* safe_float on one cell of the row, as the loops and the pricing block
\* call it.
SafeFloat ==
    /\ pc = "row_call"
    /\ \E i \in 1..Len(row.index), d \in Defaults :
          /\ arg_value' = row.values[i]
          /\ arg_default' = d
          /\ returned' = safe_float(row.values[i], d)
    /\ pc' = "float_done"
    /\ UNCHANGED <<skuVars, rowVars, batchVars>>

TransformRow ==
    /\ pc = "row_call"
    /\ document' = transform_row_to_document(row, now)
    /\ pc' = "row_done"
    /\ UNCHANGED <<skuVars, floatVars, row, batchVars>>

NextRow == SafeFloat \/ TransformRow

SpecRow == InitRow /\ [][NextRow]_vars

(***************************************************************************)
(* transform_csv_to_documents(csv_path, limit), one loop iteration per     *)
(* step, called twice on the same file with the same limit.  The exception *)
(* a row's mapping raises is an input: raising holds the positions of the  *)
(* rows whose mapping raises, the same at every call.                      *)
(***************************************************************************)
BatchHeader == <<cSku, cTP, cAjio, cAJIO>>

BatchCells ==
    {<<PyStr(<<"A","_","2","X","L">>), PyFloat(1), PyFloat(2), PyFloat(1)>>,
     <<NaN, NaN, PyFloat(0), NaN>>,
     <<PyStr(<<"B">>), PyStr(<<"a","b","c">>), PyFloat(1), PosInf>>}

CsvFiles ==
    {[header |-> BatchHeader, rows |-> rows] :
        rows \in UNION {[1..n -> BatchCells] : n \in 0..MaxRows}}

Limits == {None} \cup {PyInt(n) : n \in (0 - 1)..(MaxRows + 1)}

\* The truth value Python gives `limit` in `if limit:`.
Truthy(v) == v # None /\ ~(v.t = "int" /\ v.n = 0)

\* df.head(n): the first n rows, or all but the last -n rows when n < 0.
head(rows, n) ==
    IF n >= 0 THEN SubSeq(rows, 1, IF n < Len(rows) THEN n ELSE Len(rows))
    ELSE SubSeq(rows, 1, IF Len(rows) + n > 0 THEN Len(rows) + n ELSE 0)

\* The Series iterrows yields for position i.
RowOf(i) == [index |-> csv.header, values |-> df[i]]

Init ==
    /\ pc = "call"
    /\ csv \in CsvFiles
    /\ limit \in Limits
    /\ raising \in SUBSET (1..Len(csv.rows))
    /\ df = <<>> /\ idx = 0 /\ documents = <<>>
    /\ now = 0 /\ run = 1 /\ first_documents = <<>>
    /\ SkuIdle /\ FloatIdle /\ RowIdle

\* df = pd.read_csv(csv_path)
ReadCsv ==
    /\ pc = "call"
    /\ df' = csv.rows
    /\ pc' = "limit"
    /\ UNCHANGED <<skuVars, floatVars, rowVars,
                   csv, limit, raising, idx, documents, now, run, first_documents>>

\* ApplyLimit with `documents` kept from the call before instead of being
\* created empty.
ApplyLimit_KeepDocuments ==
    /\ pc = "limit"
    /\ df' = IF Truthy(limit) THEN head(df, limit.n) ELSE df
    /\ idx' = 1
    /\ pc' = "loop"
    /\ UNCHANGED <<skuVars, floatVars, rowVars,
                   csv, limit, raising, documents, now, run, first_documents>>

\* if limit: df = df.head(limit); then documents = [] and the loop begins.
ApplyLimit ==
    /\ pc = "limit"
    /\ df' = IF Truthy(limit) THEN head(df, limit.n) ELSE df
    /\ documents' = <<>>
    /\ idx' = 1
    /\ pc' = "loop"
    /\ UNCHANGED <<skuVars, floatVars, rowVars,
                   csv, limit, raising, now, run, first_documents>>

\* One iteration whose mapping returns: the document is appended.  The clock
\* may have moved on since the last reading.
TransformRowOk ==
    /\ pc = "loop"
    /\ idx <= Len(df)
    /\ idx \notin raising
    /\ \E t \in now..(IF now < MaxClock THEN now + 1 ELSE now) :
          /\ now' = t
          /\ documents' = Append(documents, transform_row_to_document(RowOf(idx), t))
    /\ idx' = idx + 1
    /\ UNCHANGED <<skuVars, floatVars, rowVars,
                   pc, csv, limit, raising, df, run, first_documents>>

\* The exception ends the loop instead of being caught per row.
TransformRowError_Abort ==
    /\ pc = "loop"
    /\ idx <= Len(df)
    /\ idx \in raising
    /\ pc' = "done"
    /\ UNCHANGED <<skuVars, floatVars, rowVars,
                   csv, limit, raising, df, idx, documents, now, run, first_documents>>

\* One iteration whose mapping raises: the except clause prints and continues.
TransformRowError ==
    /\ pc = "loop"
    /\ idx <= Len(df)
    /\ idx \in raising
    /\ idx' = idx + 1
    /\ UNCHANGED <<skuVars, floatVars, rowVars,
                   pc, csv, limit, raising, df, documents, now, run, first_documents>>

\* return documents
Return ==
    /\ pc = "loop"
    /\ idx > Len(df)
    /\ pc' = "done"
    /\ UNCHANGED <<skuVars, floatVars, rowVars,
                   csv, limit, raising, df, idx, documents, now, run, first_documents>>

\* The caller keeps the list returned and calls again on the same file.
CallAgain ==
    /\ pc = "done"
    /\ run = 1
    /\ first_documents' = documents
    /\ run' = 2
    /\ df' = <<>>
    /\ idx' = 0
    /\ pc' = "call"
    /\ UNCHANGED <<skuVars, floatVars, rowVars, csv, limit, raising, documents, now>>

Next ==
    \/ ReadCsv
    \/ ApplyLimit
    \/ TransformRowOk
    \/ TransformRowError
    \/ Return
    \/ CallAgain

Spec == Init /\ [][Next]_vars

(***************************************************************************)
(* Properties of extract_size_from_sku (SpecSku).                          *)
(***************************************************************************)
EndsWith(chars, suffix) ==
    /\ Len(suffix) <= Len(chars)
    /\ SubSeq(chars, Len(chars) - Len(suffix) + 1, Len(chars)) = suffix

\* The size tokens the specification names.
SizeTokens == {<<"X","L">>, <<"2","X","L">>, <<"M">>}

\* C1: extract_size_from_sku returns the trailing size token of a SKU that
\* ends in an underscore followed by a size such as "XL", "2XL" or "M", and
\* returns None when the SKU has no underscore at all, is missing, or is not
\* a string.
C1_TrailingSizeToken ==
    pc = "sku_done" =>
        /\ \A tok \in SizeTokens :
              (IsStr(sku) /\ EndsWith(sku.s, <<"_">> \o tok)) => size = PyStr(tok)
        /\ (~IsStr(sku) \/ ~Contains(sku.s, <<"_">>)) => size = None

(***************************************************************************)
(* Properties of transform_row_to_document and safe_float (SpecRow).       *)
(***************************************************************************)
\* A cell that is zero, negative, missing or not a number.
RejectedCell(cell) ==
    \/ pd_isna(cell)
    \/ cell.t \in {"float", "int"} /\ cell.n <= 0
    \/ cell.t = "str" /\ float(cell).t = "raise"

\* A cell that holds a finite number greater than zero.
PositiveCell(cell) == \E x \in 1..MaxPrice : cell \in NumericForms(x)

PositiveValue(cell) == CHOOSE x \in 1..MaxPrice : cell \in NumericForms(x)

DictValues(d) == {d[i].val : i \in 1..Len(d)}

\* C2: ecommerce_platforms never holds the standardized key of a platform
\* column whose value is zero, negative, missing or non-numeric, and every
\* value it holds is a finite number greater than 0.
C2_NoKeyForRejectedColumn ==
    pc = "row_done" =>
        /\ \A i \in 1..Len(row.index) :
              (IsPlatformCol(row.index[i]) /\ RejectedCell(row.values[i]))
                  => standardize_platform_name(row.index[i])
                        \notin DictKeys(document.ecommerce_platforms)
        /\ \A v \in DictValues(document.ecommerce_platforms) :
              IsFiniteFloat(v) /\ v.n > 0

\* C3: metadata.price_range is the largest minus the smallest value present
\* in ecommerce_platforms, and 0 when the mapping is empty, whatever the
\* platform column names are.
C3_PriceRangeOverMapping ==
    pc = "row_done" =>
        LET vals == {v.n : v \in DictValues(document.ecommerce_platforms)}
        IN IF vals = {}
           THEN document.metadata.price_range = PyFloat(0)
           ELSE \E lo \in vals, hi \in vals :
                   /\ \A x \in vals : lo <= x /\ x <= hi
                   /\ document.metadata.price_range = PyFloat(hi - lo)

\* C4: cheapest_platform and cheapest_price are both None exactly when
\* ecommerce_platforms is empty; otherwise cheapest_price is the least value
\* of ecommerce_platforms and cheapest_platform is a key holding that value.
C4_CheapestMatchesMapping ==
    pc = "row_done" =>
        LET d == document.ecommerce_platforms
            m == document.metadata
        IN /\ (m.cheapest_platform = None) <=> (d = <<>>)
           /\ (m.cheapest_price = None) <=> (d = <<>>)
           /\ d # <<>> =>
                 /\ m.cheapest_price \in DictValues(d)
                 /\ \A v \in DictValues(d) : m.cheapest_price.n <= v.n
                 /\ IsStr(m.cheapest_platform)
                 /\ m.cheapest_platform.s \in DictKeys(d)
                 /\ DictGet(d, m.cheapest_platform.s) = m.cheapest_price

\* A row with two platforms of different price, the later one cheaper.
C4_Witness ==
    /\ pc = "row_done"
    /\ Len(document.ecommerce_platforms) >= 2
    /\ document.metadata.cheapest_platform
          # PyStr(document.ecommerce_platforms[1].key)
    /\ document.metadata.cheapest_price.n < document.ecommerce_platforms[1].val.n

PricingSource(field) ==
    CASE field = "tp" -> cTP
      [] field = "mrp_old" -> cMRPOld
      [] field = "final_mrp_old" -> cFinalMRPOld

MissingText(col) == ~HasColumn(row, col) \/ pd_isna(RowAt(row, col))

\* C7: sku and style_id are strings, and each is the empty string when its
\* source value is missing (column absent, or the cell is the missing-value
\* sentinel).
C7_MissingTextIsEmpty ==
    pc = "row_done" =>
        /\ IsStr(document.sku) /\ IsStr(document.style_id)
        /\ MissingText(cSku) => document.sku = PyStr(<<>>)
        /\ MissingText(cStyleId) => document.style_id = PyStr(<<>>)

\* The positions of the platform columns whose price is the smallest
\* qualifying price of the row.
CheapestPositions ==
    LET q == {i \in 1..Len(row.index) :
                 IsPlatformCol(row.index[i]) /\ PositiveCell(row.values[i])}
    IN {i \in q : \A j \in q : PositiveValue(row.values[i]) <= PositiveValue(row.values[j])}

\* C9: when several platform columns share the smallest qualifying price,
\* cheapest_platform is the standardized name of the first of them in column
\* order, whatever the platform column names are.
C9_TieGoesToFirstColumn ==
    (pc = "row_done" /\ Cardinality(CheapestPositions) >= 2) =>
        LET first == CHOOSE i \in CheapestPositions :
                        \A j \in CheapestPositions : i <= j
        IN document.metadata.cheapest_platform
              = PyStr(standardize_platform_name(row.index[first]))

(***************************************************************************)
(* Properties of transform_csv_to_documents (Spec).                        *)
(***************************************************************************)
WithoutCreatedAt(doc) == [doc EXCEPT !.metadata.created_at = None]

WithoutCreatedAtAll(docs) == [i \in 1..Len(docs) |-> WithoutCreatedAt(docs[i])]

\* The documents of the rows 1..k of df whose mapping does not raise, in row
\* order, created_at aside.
RECURSIVE MappedPrefix(_)
MappedPrefix(k) ==
    IF k = 0 THEN <<>>
    ELSE IF k \in raising THEN MappedPrefix(k - 1)
    ELSE Append(MappedPrefix(k - 1),
                WithoutCreatedAt(transform_row_to_document(RowOf(k), 0)))

IsPrefix(a, b) == Len(a) <= Len(b) /\ SubSeq(b, 1, Len(a)) = a

\* C5: the loaded rows are mapped one at a time in file order; a row whose
\* mapping raises is skipped without ending the batch and without removing or
\* changing the documents already produced, so the list returned holds one
\* document per row whose mapping succeeded, in row order.
C5_SkipsRaisingRows ==
    /\ [](pc \in {"loop", "done"} =>
             /\ idx <= Len(df) + 1
             /\ WithoutCreatedAtAll(documents) = MappedPrefix(idx - 1))
    /\ [](pc = "done" => idx = Len(df) + 1)
    /\ [][(pc = "loop" /\ pc' \in {"loop", "done"}) => IsPrefix(documents, documents')]_vars

\* A batch of two rows whose first row is mapped and whose second row raises.
C5_Witness ==
    /\ pc = "done"
    /\ Len(df) = 2
    /\ raising = {2}
    /\ Len(documents) = 1

\* C8: two calls on the same file with the same limit return lists of equal
\* length whose documents agree pairwise in every field but
\* metadata.created_at.
C8_SecondCallAgrees ==
    (pc = "done" /\ run = 2) =>
        /\ Len(documents) = Len(first_documents)
        /\ \A i \in 1..Len(documents) :
              WithoutCreatedAt(documents[i]) = WithoutCreatedAt(first_documents[i])

\* Both calls returned two documents, stamped at different times.
C8_Witness ==
    /\ pc = "done" /\ run = 2
    /\ Len(documents) = 2
    /\ documents[1].metadata.created_at # first_documents[1].metadata.created_at

\* C10: with a limit n >= 0 only the first n rows of the file are mapped, so
\* at most n documents are returned; with no limit every row is mapped.
C10_LimitBoundsRows ==
    pc = "done" =>
        /\ (limit # None /\ limit.n >= 0) =>
              /\ df = head(csv.rows, limit.n)
              /\ Len(documents) <= limit.n
        /\ limit = None => df = csv.rows

====
